---- MODULE Spec2Model ----
(***************************************************************************)
(* State-machine model of the request handlers of src/server.py (the       *)
(* coordinator of the Access File Transfer Server): the per-agent command  *)
(* queues, the file report store, the upload ledger with the files on      *)
(* disk, the client registry and the configuration store.                  *)
(*                                                                         *)
(* Text that the code manipulates character by character (client ids,      *)
(* file names, storage paths) is a sequence of one-character strings, so   *)
(* that str.replace, the f-string and os.path.join are computed.  A Python *)
(* dict is a function whose DOMAIN is the set of keys present.             *)
(***************************************************************************)
EXTENDS Integers, Sequences, FiniteSets, TLC

VARIABLES
    pending_commands,         \* dict: client id -> list of command dicts
    client_files,             \* dict: client id -> list of {filepath, reported_at}
    uploaded_files_metadata,  \* list of ledger dicts
    clients_registry,         \* dict: client id -> {ip, last_seen}
    client_configs,           \* dict: client id -> config dict
    disk,                     \* the file system: path -> bytes of the file
    now,                      \* the wall clock read by datetime.now(), in seconds
    next_uuid,                \* number of ids uuid.uuid4() has handed out
    in_flight,                \* the upload requests suspended at `await file.read()`
    resp                      \* the last request served and its response

vars == <<pending_commands, client_files, uploaded_files_metadata,
          clients_registry, client_configs, disk, now, next_uuid, in_flight, resp>>

-----------------------------------------------------------------------------
(* Inputs the requests are drawn from *)


Agents == { <<"A">>, <<"B">> }
Filepaths == { <<"p">> }             \* UploadCommand.filepath

\* the files agents upload: UploadFile.filename and the bytes
UploadedFiles ==
    { [filename |-> <<"d", "/", "f">>, content |-> <<7>>],
      [filename |-> <<"d", "\\", "f">>, content |-> <<7, 8>>] }

EmptyDict == [k \in {} |-> 0]

-----------------------------------------------------------------------------
(* Python values as far as report_files looks at them *)

PyStr(s) == [type |-> "str", val |-> s]
PyInt(s) == [type |-> "int", val |-> s]

\* The request texts of the files_json form field.
FilesJson == { "[\"a\",\"b\"]", "[\"c\"]", "[]", "[1]",
               "\"xy\"", "{\"k\":1}", "7", "null", "[\"a\"" }

\* json.loads on each of these texts: the type of the decoded value and what
\* iterating over it yields (elements of a list, characters of a str, keys
\* of a dict); the last text is not JSON and raises JSONDecodeError.
json_loads(text) ==
    CASE text = "[\"a\",\"b\"]" -> [type |-> "list", items |-> <<PyStr("a"), PyStr("b")>>]
      [] text = "[\"c\"]"       -> [type |-> "list", items |-> <<PyStr("c")>>]
      [] text = "[]"            -> [type |-> "list", items |-> <<>>]
      [] text = "[1]"           -> [type |-> "list", items |-> <<PyInt("1")>>]
      [] text = "\"xy\""        -> [type |-> "str",  items |-> <<PyStr("x"), PyStr("y")>>]
      [] text = "{\"k\":1}"     -> [type |-> "dict", items |-> <<PyStr("k")>>]
      [] text = "7"             -> [type |-> "int",  items |-> <<>>]
      [] text = "null"          -> [type |-> "NoneType", items |-> <<>>]
      [] OTHER                  -> [type |-> "JSONDecodeError", items |-> <<>>]

\* `for f in files_list` and len(files_list) work for list, str and dict and
\* raise TypeError for the other decoded values.
py_iterable(v) == v.type \in {"list", "str", "dict"}

\* The texts that decode to a list whose elements are all strings.
IsListOfStrings(text) ==
    LET v == json_loads(text)
    IN  v.type = "list" /\ \A i \in 1 .. Len(v.items) : v.items[i].type = "str"

-----------------------------------------------------------------------------
(* Helpers over dicts and lists *)

\* dict.get(key, [])
dict_get(d, key) == IF key \in DOMAIN d THEN d[key] ELSE <<>>

\* d[key] = value
dict_set(d, key, value) == (key :> value) @@ d

\* the least index in a set of indices of a list, 0 when the set is empty:
\* where a left-to-right search stops
first_index(indices) ==
    IF indices = {} THEN 0
    ELSE CHOOSE i \in indices : \A j \in indices : i <= j

\* next((x for x in list if x["command_id"] == command_id), None), as the
\* index of x in the list, 0 for None
index_of(list, command_id) ==
    first_index({i \in 1 .. Len(list) : list[i].command_id = command_id})

-----------------------------------------------------------------------------
(* Responses *)

\* The handler that answered last, its status code and the body it returned.
Response(op, code, body) == [op |-> op, code |-> code, body |-> body]

NoResponse == Response("none", 0, EmptyDict)

\* CommandResponse(command_id=..., type=..., status="pending")
CommandResponse(command_id, type, status) ==
    [command_id |-> command_id, type |-> type, status |-> status]

-----------------------------------------------------------------------------
(* Command queue: src/server.py lines 56-88 *)

\* uuid4 if it handed out the previous id again
uuid4_repeated == IF next_uuid = 0 THEN 1 ELSE next_uuid

\* str(uuid.uuid4()): an id that was not handed out before.  Ids are numbered
\* in the order of their creation.
uuid4 == next_uuid + 1

\* pending_commands.setdefault(client_id, []).append(new_command)
setdefault_append(d, client_id, new_command) ==
    dict_set(d, client_id, Append(dict_get(d, client_id), new_command))

\* The four create handlers differ in the type and in the payload only.
create_command(op, client_id, new_command) ==
    /\ pending_commands' = setdefault_append(pending_commands, client_id, new_command)
    /\ next_uuid' = next_uuid + 1
    /\ resp' = Response(op, 200,
                        CommandResponse(new_command.command_id, new_command.type, "pending"))
    /\ UNCHANGED <<client_files, uploaded_files_metadata, clients_registry,
                   client_configs, disk, now, in_flight>>

create_scan_command(client_id) ==
    create_command("create_scan_command", client_id,
        [command_id |-> uuid4, type |-> "scan", status |-> "pending"])

create_upload_command(client_id, filepath) ==
    create_command("create_upload_command", client_id,
        [command_id |-> uuid4, type |-> "upload", filepath |-> filepath,
         status |-> "pending"])

create_reboot_command(client_id) ==
    create_command("create_reboot_command", client_id,
        [command_id |-> uuid4, type |-> "reboot", status |-> "pending"])

create_shutdown_command(client_id) ==
    create_command("create_shutdown_command", client_id,
        [command_id |-> uuid4, type |-> "shutdown", status |-> "pending"])

\* the poll if it did not filter on the status
pending_unfiltered(client_id) == dict_get(pending_commands, client_id)

\* pending = [cmd for cmd in pending_commands.get(client_id, [])
\*            if cmd["status"] == "pending"]
pending(client_id) ==
    SelectSeq(dict_get(pending_commands, client_id),
              LAMBDA cmd : cmd.status = "pending")

get_commands(client_id) ==
    /\ resp' = Response("get_commands", 200,
                        [commands |-> pending(client_id)])
    /\ UNCHANGED <<pending_commands, client_files, uploaded_files_metadata,
                   clients_registry, client_configs, disk, now, next_uuid, in_flight>>

-----------------------------------------------------------------------------
(* File report store: src/server.py lines 90-108 *)

\* the loop of report_files without its break: every pending scan completes
complete_every_scan(commands) ==
    [i \in 1 .. Len(commands) |->
        IF commands[i].type = "scan" /\ commands[i].status = "pending"
        THEN [status |-> "completed"] @@ commands[i]
        ELSE commands[i]]

\* the loop of report_files if it did not look at the type of the command
complete_first_pending(commands) ==
    LET i == first_index({k \in 1 .. Len(commands) :
                             commands[k].status = "pending"})
    IN  IF i = 0 THEN commands
        ELSE [commands EXCEPT ![i] = [status |-> "completed"] @@ commands[i]]

\* the loop of report_files if it stopped at the first scan whatever its status
complete_head_scan(commands) ==
    LET scans == {k \in 1 .. Len(commands) : commands[k].type = "scan"}
    IN  IF scans = {} THEN commands
        ELSE LET i == CHOOSE k \in scans : \A j \in scans : k <= j
             IN  IF commands[i].status = "pending"
                 THEN [commands EXCEPT ![i] = [status |-> "completed"] @@ commands[i]]
                 ELSE commands

\* the loop of report_files if it took the newest pending scan
complete_last_scan(commands) ==
    LET scans == {k \in 1 .. Len(commands) :
                     /\ commands[k].type = "scan"
                     /\ commands[k].status = "pending"}
    IN  IF scans = {} THEN commands
        ELSE LET i == CHOOSE k \in scans : \A j \in scans : j <= k
             IN  [commands EXCEPT ![i] = [status |-> "completed"] @@ commands[i]]

\* The for/break loop of report_files over one agent's list: the first
\* command that is a pending scan becomes completed, nothing else changes.
complete_first_scan(commands) ==
    LET i == first_index({k \in 1 .. Len(commands) :
                             /\ commands[k].type = "scan"
                             /\ commands[k].status = "pending"})
    IN  IF i = 0 THEN commands
        ELSE [commands EXCEPT ![i] = [status |-> "completed"] @@ commands[i]]

\* The new list stored for the agent: one entry per element the iteration
\* over files_list yields.
report_entries(files_list) ==
    [i \in 1 .. Len(files_list.items) |->
        [filepath |-> files_list.items[i], reported_at |-> now]]

\* the store if a report were appended to the agent's previous list
merged_client_files(client_id, files_list) ==
    dict_set(client_files, client_id,
             dict_get(client_files, client_id) \o report_entries(files_list))

\* line 94: client_files[client_id] = [...]
reported_client_files(client_id, files_list) ==
    dict_set(client_files, client_id, report_entries(files_list))

\* report_files if it emptied the agent's list before decoding the payload
report_files_cleared_first(client_id, files_json) ==
    LET files_list == json_loads(files_json)
    IN  IF files_list.type = "JSONDecodeError" \/ ~py_iterable(files_list)
        THEN /\ client_files' = dict_set(client_files, client_id, <<>>)
             /\ resp' = Response("report_files", 400,
                                 [detail |-> "Invalid JSON"])
             /\ UNCHANGED <<pending_commands, uploaded_files_metadata,
                            clients_registry, client_configs, disk, now, next_uuid, in_flight>>
        ELSE /\ client_files' = reported_client_files(client_id, files_list)
             /\ pending_commands' =
                    IF client_id \in DOMAIN pending_commands
                    THEN [pending_commands EXCEPT
                             ![client_id] = complete_first_scan(@)]
                    ELSE pending_commands
             /\ resp' = Response("report_files", 200,
                                 [status |-> "success",
                                  count |-> Len(files_list.items)])
             /\ UNCHANGED <<uploaded_files_metadata, clients_registry,
                            client_configs, disk, now, next_uuid, in_flight>>

report_files(client_id, files_json) ==
    LET files_list == json_loads(files_json)
    IN  IF files_list.type = "JSONDecodeError" \/ ~py_iterable(files_list)
        THEN \* json.loads or the iteration raised before anything was stored
             /\ resp' = Response("report_files", 400,
                                 [detail |-> "Invalid JSON"])
             /\ UNCHANGED <<pending_commands, client_files, uploaded_files_metadata,
                            clients_registry, client_configs, disk, now, next_uuid, in_flight>>
        ELSE /\ client_files' = reported_client_files(client_id, files_list)
             /\ pending_commands' =
                    IF client_id \in DOMAIN pending_commands
                    THEN [pending_commands EXCEPT
                             ![client_id] = complete_first_scan(@)]
                    ELSE pending_commands
             /\ resp' = Response("report_files", 200,
                                 [status |-> "success",
                                  count |-> Len(files_list.items)])
             /\ UNCHANGED <<uploaded_files_metadata, clients_registry,
                            client_configs, disk, now, next_uuid, in_flight>>

\* client_files.get(client_id, [])
files_of(client_id) == dict_get(client_files, client_id)

get_client_files(client_id) ==
    /\ resp' = Response("get_client_files", 200,
                        [client_id |-> client_id, files |-> files_of(client_id)])
    /\ UNCHANGED <<pending_commands, client_files, uploaded_files_metadata,
                   clients_registry, client_configs, disk, now, next_uuid, in_flight>>

-----------------------------------------------------------------------------
(* Client registry and configuration store: src/server.py lines 110-157 *)

get_all_clients ==
    /\ resp' = Response("get_all_clients", 200, [clients |-> clients_registry])
    /\ UNCHANGED <<pending_commands, client_files, uploaded_files_metadata,
                   clients_registry, client_configs, disk, now, next_uuid, in_flight>>

\* the upsert if it kept the last_seen of the record it found
receive_client_status_first_seen(client_id, ip) ==
    /\ clients_registry' =
           dict_set(clients_registry, client_id,
                    [ip |-> ip,
                     last_seen |-> IF client_id \in DOMAIN clients_registry
                                   THEN clients_registry[client_id].last_seen
                                   ELSE now])
    /\ resp' = Response("receive_client_status", 200, [status |-> "ok"])
    /\ UNCHANGED <<pending_commands, client_files, uploaded_files_metadata,
                   client_configs, disk, now, next_uuid, in_flight>>

receive_client_status(client_id, ip) ==
    /\ clients_registry' = dict_set(clients_registry, client_id,
                                    [ip |-> ip, last_seen |-> now])
    /\ resp' = Response("receive_client_status", 200, [status |-> "ok"])
    /\ UNCHANGED <<pending_commands, client_files, uploaded_files_metadata,
                   client_configs, disk, now, next_uuid, in_flight>>

default_config ==
    [search_patterns |-> <<"*.log", "*.txt", "*.json">>,
     search_directories |-> <<"all">>,
     max_file_size_mb |-> 100,
     scan_interval |-> 5]

\* what get_client_config returns in the current state
client_config(client_id) ==
    IF client_id \notin DOMAIN client_configs THEN default_config
    ELSE client_configs[client_id]

\* get_client_config if it kept the default it returns for an unknown agent
get_client_config_stored(client_id) ==
    /\ resp' = Response("get_client_config", 200, client_config(client_id))
    /\ client_configs' = dict_set(client_configs, client_id, client_config(client_id))
    /\ UNCHANGED <<pending_commands, client_files, uploaded_files_metadata,
                   clients_registry, disk, now, next_uuid, in_flight>>

get_client_config(client_id) ==
    /\ resp' = Response("get_client_config", 200, client_config(client_id))
    /\ UNCHANGED <<pending_commands, client_files, uploaded_files_metadata,
                   clients_registry, client_configs, disk, now, next_uuid, in_flight>>

\* the store if a Set kept the agent's previous value, or the default, for
\* every field that the request leaves empty or zero
set_client_config_merged(client_id, config) ==
    /\ client_configs' = dict_set(client_configs, client_id,
            [search_patterns |->
                 IF config.search_patterns = <<>>
                 THEN client_config(client_id).search_patterns
                 ELSE config.search_patterns,
             search_directories |->
                 IF config.search_directories = <<>>
                 THEN client_config(client_id).search_directories
                 ELSE config.search_directories,
             max_file_size_mb |->
                 IF config.max_file_size_mb = 0
                 THEN client_config(client_id).max_file_size_mb
                 ELSE config.max_file_size_mb,
             scan_interval |->
                 IF config.scan_interval = 0
                 THEN client_config(client_id).scan_interval
                 ELSE config.scan_interval])
    /\ resp' = Response("set_client_config", 200, [status |-> "ok"])
    /\ UNCHANGED <<pending_commands, client_files, uploaded_files_metadata,
                   clients_registry, disk, now, next_uuid, in_flight>>

\* config is the validated ClientConfig of the request body
set_client_config(client_id, config) ==
    /\ client_configs' = dict_set(client_configs, client_id,
            [search_patterns |-> config.search_patterns,
             search_directories |-> config.search_directories,
             max_file_size_mb |-> config.max_file_size_mb,
             scan_interval |-> config.scan_interval])
    /\ resp' = Response("set_client_config", 200, [status |-> "ok"])
    /\ UNCHANGED <<pending_commands, client_files, uploaded_files_metadata,
                   clients_registry, disk, now, next_uuid, in_flight>>

-----------------------------------------------------------------------------
(* Upload / download ledger: src/server.py lines 15, 173-217 *)

uploaded_files_dir ==
    <<"u", "p", "l", "o", "a", "d", "e", "d", "_", "f", "i", "l", "e", "s">>

\* str.replace(old, new) for one-character old and new
replace(s, old, new) ==
    [i \in 1 .. Len(s) |-> IF s[i] = old THEN new ELSE s[i]]

\* file.filename.replace("/", "_").replace("\\", "_")
safe_filename(filename) == replace(replace(filename, "/", "_"), "\\", "_")

\* datetime.now().strftime("%Y%m%d_%H%M%S"): one text per second of the clock
strftime(t) == <<ToString(t)>>

\* os.path.join(a, b) on a POSIX host: b alone when b is absolute
os_path_join(a, b) ==
    IF Len(b) > 0 /\ b[1] = "/" THEN b
    ELSE IF Len(a) > 0 /\ a[Len(a)] # "/" THEN a \o <<"/">> \o b
    ELSE a \o b

\* os.path.join(uploaded_files_dir, f"{client_id}_{timestamp}_{safe_filename}")
save_path(client_id, t, filename) ==
    os_path_join(uploaded_files_dir,
                 client_id \o <<"_">> \o strftime(t) \o <<"_">> \o safe_filename(filename))

\* A reference to a command dict: the list that holds it and its index.
None == [client_id |-> <<>>, index |-> 0]

\* the lookup if it fell back to the agent's first command
find_command_or_first(client_id, command_id) ==
    LET commands == dict_get(pending_commands, client_id)
        i == index_of(commands, command_id)
    IN  IF i # 0 THEN [client_id |-> client_id, index |-> i]
        ELSE IF Len(commands) > 0 THEN [client_id |-> client_id, index |-> 1]
        ELSE None

\* the lookup if it searched the queues of all agents
find_command_any_agent(client_id, command_id) ==
    IF \E a \in DOMAIN pending_commands :
           \E i \in 1 .. Len(pending_commands[a]) :
               pending_commands[a][i].command_id = command_id
    THEN LET a == CHOOSE a \in DOMAIN pending_commands :
                      \E i \in 1 .. Len(pending_commands[a]) :
                          pending_commands[a][i].command_id = command_id
         IN  [client_id |-> a,
              index |-> index_of(pending_commands[a], command_id)]
    ELSE None

\* the lookup if it matched pending commands only
find_pending_command(client_id, command_id) ==
    LET commands == dict_get(pending_commands, client_id)
        i == first_index({k \in 1 .. Len(commands) :
                             /\ commands[k].command_id = command_id
                             /\ commands[k].status = "pending"})
    IN  IF i = 0 THEN None ELSE [client_id |-> client_id, index |-> i]

\* lines 179-180: commands = pending_commands.get(client_id, []);
\* next((c for c in commands if c["command_id"] == command_id), None)
find_command(client_id, command_id) ==
    LET i == index_of(dict_get(pending_commands, client_id), command_id)
    IN  IF i = 0 THEN None ELSE [client_id |-> client_id, index |-> i]

\* the update if it flipped the status of the command it found
toggled_command(command, path, filename, content, completed_at) ==
    [status |-> IF command.status = "pending" THEN "completed" ELSE "pending",
     saved_as |-> path, filename |-> filename,
     size |-> Len(content), completed_at |-> completed_at] @@ command

\* lines 192-196: the fields the handler sets on the command it found
completed_command(command, path, filename, content, completed_at) ==
    [status |-> "completed", saved_as |-> path, filename |-> filename,
     size |-> Len(content), completed_at |-> completed_at] @@ command

\* the ledger entry if it recorded the sanitized name
ledger_entry_safe_name(command_id, client_id, filename, path, content, uploaded_at) ==
    [command_id |-> command_id, client_id |-> client_id,
     filename |-> safe_filename(filename),
     saved_path |-> path, size |-> Len(content), uploaded_at |-> uploaded_at]

\* lines 198-205
ledger_entry(command_id, client_id, filename, path, content, uploaded_at) ==
    [command_id |-> command_id, client_id |-> client_id, filename |-> filename,
     saved_path |-> path, size |-> Len(content), uploaded_at |-> uploaded_at]

\* The handler when open() and write() do not raise.  The clock is read at
\* line 185 and again at line 196, after the file was read and written:
\* completed_at is the second reading.
upload_file(command_id, client_id, filename, content, completed_at) ==
    LET command == find_command(client_id, command_id)
        path == save_path(client_id, now, filename)
    IN  IF command = None
        THEN /\ resp' = Response("upload_file", 404,
                                 [detail |-> "Command not found"])
             /\ UNCHANGED <<pending_commands, client_files, uploaded_files_metadata,
                            clients_registry, client_configs, disk, now, next_uuid, in_flight>>
        ELSE /\ completed_at >= now
             /\ disk' = dict_set(disk, path, content)
             /\ now' = completed_at
             /\ pending_commands' =
                    [pending_commands EXCEPT ![command.client_id][command.index] =
                        completed_command(@, path, filename, content, completed_at)]
             /\ uploaded_files_metadata' =
                    Append(uploaded_files_metadata,
                           ledger_entry(command_id, client_id, filename,
                                        path, content, completed_at))
             /\ resp' = Response("upload_file", 200,
                                 [status |-> "success", command_id |-> command_id])
             /\ UNCHANGED <<client_files, clients_registry, client_configs, next_uuid, in_flight>>

\* The handler up to `await file.read()` at line 188, where other handlers
\* may run: the lookup answers 404, or the request is suspended holding its
\* locals: the command found, the file and the save_path built from the
\* clock reading of line 185.
upload_file_await_read(command_id, client_id, filename, content) ==
    LET command == find_command(client_id, command_id)
    IN  IF command = None
        THEN /\ resp' = Response("upload_file", 404,
                                 [detail |-> "Command not found"])
             /\ UNCHANGED <<pending_commands, client_files, uploaded_files_metadata,
                            clients_registry, client_configs, disk, now, next_uuid,
                            in_flight>>
        ELSE /\ in_flight' = Append(in_flight,
                    [command_id |-> command_id, client_id |-> client_id,
                     command |-> command, filename |-> filename,
                     content |-> content,
                     save_path |-> save_path(client_id, now, filename)])
             /\ resp' = Response("upload_file_await_read", 0, EmptyDict)
             /\ UNCHANGED <<pending_commands, client_files, uploaded_files_metadata,
                            clients_registry, client_configs, disk, now, next_uuid>>

\* the list without its k-th element
remove_at(list, k) == SubSeq(list, 1, k - 1) \o SubSeq(list, k + 1, Len(list))

\* the rest of the handler if it recorded one upload per command only
upload_file_resume_once(k) ==
    LET request == in_flight[k]
    IN  /\ disk' = dict_set(disk, request.save_path, request.content)
        /\ pending_commands' =
               [pending_commands EXCEPT
                   ![request.command.client_id][request.command.index] =
                       completed_command(@, request.save_path, request.filename,
                                         request.content, now)]
        /\ uploaded_files_metadata' =
               IF index_of(uploaded_files_metadata, request.command_id) # 0
               THEN uploaded_files_metadata
               ELSE Append(uploaded_files_metadata,
                           ledger_entry(request.command_id, request.client_id,
                                        request.filename, request.save_path,
                                        request.content, now))
        /\ in_flight' = remove_at(in_flight, k)
        /\ resp' = Response("upload_file", 200,
                            [status |-> "success", command_id |-> request.command_id])
        /\ UNCHANGED <<client_files, clients_registry, client_configs, now, next_uuid>>

\* The rest of the handler, lines 188-206, for the k-th suspended request,
\* when open() and write() do not raise: the file is written, the command
\* that the request holds is updated in place, the ledger entry appended.
\* The clock is read again at line 196.
upload_file_resume(k) ==
    LET request == in_flight[k]
    IN  /\ disk' = dict_set(disk, request.save_path, request.content)
        /\ pending_commands' =
               [pending_commands EXCEPT
                   ![request.command.client_id][request.command.index] =
                       completed_command(@, request.save_path, request.filename,
                                         request.content, now)]
        /\ uploaded_files_metadata' =
               Append(uploaded_files_metadata,
                      ledger_entry(request.command_id, request.client_id,
                                   request.filename, request.save_path,
                                   request.content, now))
        /\ in_flight' = remove_at(in_flight, k)
        /\ resp' = Response("upload_file", 200,
                            [status |-> "success", command_id |-> request.command_id])
        /\ UNCHANGED <<client_files, clients_registry, client_configs, now, next_uuid>>

\* the failing handler if it marked the command before writing the file
upload_file_write_error_completed(command_id, client_id, filename, content) ==
    LET command == find_command(client_id, command_id)
        path == save_path(client_id, now, filename)
    IN  /\ command # None
        /\ disk' = disk
        /\ pending_commands' =
               [pending_commands EXCEPT ![command.client_id][command.index] =
                   completed_command(@, path, filename, content, now)]
        /\ resp' = Response("upload_file", 500,
                            [detail |-> "Internal Server Error"])
        /\ UNCHANGED <<client_files, uploaded_files_metadata, clients_registry,
                       client_configs, now, next_uuid, in_flight>>

\* the failing handler if it recorded the upload before writing the file
upload_file_write_error_recorded(command_id, client_id, filename, content) ==
    LET command == find_command(client_id, command_id)
        path == save_path(client_id, now, filename)
    IN  /\ command # None
        /\ disk' = disk
        /\ uploaded_files_metadata' =
               Append(uploaded_files_metadata,
                      ledger_entry(command_id, client_id, filename, path, content, now))
        /\ resp' = Response("upload_file", 500,
                            [detail |-> "Internal Server Error"])
        /\ UNCHANGED <<pending_commands, client_files, clients_registry,
                       client_configs, now, next_uuid, in_flight>>

\* The handler when open() or write() raises OSError at lines 189-190: the
\* exception is not caught, the request ends with 500.  The file is left
\* untouched (open failed) or truncated to a proper prefix of the content.
upload_file_write_error(command_id, client_id, filename, content) ==
    LET command == find_command(client_id, command_id)
        path == save_path(client_id, now, filename)
    IN  /\ command # None
        /\ \/ disk' = disk
           \/ \E n \in 0 .. (Len(content) - 1) :
                  disk' = dict_set(disk, path, SubSeq(content, 1, n))
        /\ resp' = Response("upload_file", 500,
                            [detail |-> "Internal Server Error"])
        /\ UNCHANGED <<pending_commands, client_files, uploaded_files_metadata,
                       clients_registry, client_configs, now, next_uuid, in_flight>>

\* the ledger lookup if it took the latest entry of the command
file_record_last(command_id) ==
    LET indices == {i \in 1 .. Len(uploaded_files_metadata) :
                       uploaded_files_metadata[i].command_id = command_id}
    IN  IF indices = {} THEN 0
        ELSE CHOOSE i \in indices : \A j \in indices : j <= i

\* next((f for f in uploaded_files_metadata if f["command_id"] == command_id), None)
file_record(command_id) ==
    index_of(uploaded_files_metadata, command_id)

\* What download_file answers in the current state: 404, or the FileResponse
\* with the bytes found at saved_path and the recorded filename.
download_response(command_id) ==
    LET i == file_record(command_id)
    IN  IF i = 0 \/ uploaded_files_metadata[i].saved_path \notin DOMAIN disk
        THEN [code |-> 404, body |-> [detail |-> "not found"]]
        ELSE [code |-> 200,
              body |-> [path |-> uploaded_files_metadata[i].saved_path,
                        filename |-> uploaded_files_metadata[i].filename,
                        content |-> disk[uploaded_files_metadata[i].saved_path]]]

download_file(command_id) ==
    /\ resp' = Response("download_file",
                        download_response(command_id).code,
                        download_response(command_id).body)
    /\ UNCHANGED <<pending_commands, client_files, uploaded_files_metadata,
                   clients_registry, client_configs, disk, now, next_uuid, in_flight>>

get_downloaded_files ==
    /\ resp' = Response("get_downloaded_files", 200,
                        [files |-> uploaded_files_metadata])
    /\ UNCHANGED <<pending_commands, client_files, uploaded_files_metadata,
                   clients_registry, client_configs, disk, now, next_uuid, in_flight>>

-----------------------------------------------------------------------------
(* The environment of the handlers *)

\* The wall clock passes to the next second.
Tick ==
    /\ now' = now + 1
    /\ resp' = Response("tick", 0, EmptyDict)
    /\ UNCHANGED <<pending_commands, client_files, uploaded_files_metadata,
                   clients_registry, client_configs, disk, next_uuid, in_flight>>

\* A stored file is deleted from the storage directory by someone else.
external_delete(path) ==
    /\ path \in DOMAIN disk
    /\ disk' = [p \in DOMAIN disk \ {path} |-> disk[p]]
    /\ resp' = Response("external_delete", 0, EmptyDict)
    /\ UNCHANGED <<pending_commands, client_files, uploaded_files_metadata,
                   clients_registry, client_configs, now, next_uuid, in_flight>>

-----------------------------------------------------------------------------
(* The state after the module is loaded: lines 15-23 *)

Init ==
    /\ pending_commands = EmptyDict
    /\ client_files = EmptyDict
    /\ uploaded_files_metadata = <<>>
    /\ clients_registry = EmptyDict
    /\ client_configs = EmptyDict
    /\ disk = EmptyDict
    /\ now = 0
    /\ next_uuid = 0
    /\ in_flight = <<>>
    /\ resp = NoResponse

-----------------------------------------------------------------------------------------------------------------------------------------------------
(* SpecQueue: every handler that writes pending_commands, and the poll.    *)
(* A run creates commands and accepts uploads MaxQueueWork times in all.   *)
(* Command ids 1 .. next_uuid were handed out, 0 never is.                 *)

MaxQueueWork == 4

QueueWork == next_uuid + Len(uploaded_files_metadata)

RebootAgent == <<"A">>
ShutdownAgent == <<"B">>
QueueFilesJson == { "[\"c\"]", "7" }
QueueFilename == <<"d", "/", "f">>
QueueContent == <<7>>

NextQueue ==
    \/ \E client_id \in Agents :
           QueueWork < MaxQueueWork /\ create_scan_command(client_id)
    \/ \E client_id \in Agents, filepath \in Filepaths :
           QueueWork < MaxQueueWork /\ create_upload_command(client_id, filepath)
    \/ QueueWork < MaxQueueWork /\ create_reboot_command(RebootAgent)
    \/ QueueWork < MaxQueueWork /\ create_shutdown_command(ShutdownAgent)
    \/ \E client_id \in Agents : get_commands(client_id)
    \/ \E client_id \in Agents, files_json \in QueueFilesJson :
           report_files(client_id, files_json)
    \/ \E command_id \in 0 .. next_uuid, client_id \in Agents :
           /\ QueueWork < MaxQueueWork
           /\ upload_file(command_id, client_id, QueueFilename, QueueContent, now)

SpecQueue == Init /\ [][NextQueue]_vars

-----------------------------------------------------------------------------
(* SpecRegistry: an agent registers, is sent scan commands, polls and       *)
(* reports, while the clock runs.                                          *)

MaxScans == 2       \* commands created in a run of SpecRegistry
MaxTime == 1        \* last second the clock of SpecRegistry reaches

Ips == { "10.0.0.1", "10.0.0.2" }
RegistryFilesJson == { "[\"c\"]" }

NextRegistry ==
    \/ \E client_id \in Agents, ip \in Ips : receive_client_status(client_id, ip)
    \/ get_all_clients
    \/ \E client_id \in Agents :
           next_uuid < MaxScans /\ create_scan_command(client_id)
    \/ \E client_id \in Agents : get_commands(client_id)
    \/ \E client_id \in Agents, files_json \in RegistryFilesJson :
           report_files(client_id, files_json)
    \/ now < MaxTime /\ Tick

SpecRegistry == Init /\ [][NextRegistry]_vars

-----------------------------------------------------------------------------
(* SpecReport: the file report store under every kind of payload, with the  *)
(* scan commands that reports complete.                                    *)

NextReport ==
    \/ \E client_id \in Agents, files_json \in FilesJson :
           report_files(client_id, files_json)
    \/ \E client_id \in Agents : get_client_files(client_id)
    \/ \E client_id \in Agents :
           next_uuid < MaxScans /\ create_scan_command(client_id)
    \/ now < MaxTime /\ Tick

SpecReport == Init /\ [][NextReport]_vars

-----------------------------------------------------------------------------------------------------------------------------------------------------
(* SpecUpload: uploads and downloads against the queues, the ledger and    *)
(* the storage directory, with a running clock and files deleted behind    *)
(* the server's back.  A run creates commands, accepts uploads and lets    *)
(* seconds pass MaxUploadWork times in all.                                *)

MaxUploadWork == 4

UploadWork == next_uuid + Len(uploaded_files_metadata) + now

NextUpload ==
    \/ \E client_id \in Agents, filepath \in Filepaths :
           UploadWork < MaxUploadWork /\ create_upload_command(client_id, filepath)
    \/ \E client_id \in Agents :
           UploadWork < MaxUploadWork /\ create_scan_command(client_id)
    \/ \E command_id \in 0 .. next_uuid, client_id \in Agents,
          file \in UploadedFiles :
           /\ UploadWork < MaxUploadWork
           /\ upload_file(command_id, client_id, file.filename, file.content, now)
    \/ \E command_id \in 0 .. next_uuid : download_file(command_id)
    \/ UploadWork < MaxUploadWork /\ Tick
    \/ \E path \in DOMAIN disk : external_delete(path)

SpecUpload == Init /\ [][NextUpload]_vars

-----------------------------------------------------------------------------
(* SpecServer: every handler of the server, with write failures, the clock *)
(* and files deleted behind the server.  A run hands out ids, accepts      *)
(* uploads, lets seconds pass and adds keys to the registry, the config    *)
(* store and the report store MaxServerWork times in all.                  *)

MaxServerWork == 3

ServerWork ==
    next_uuid + Len(uploaded_files_metadata) + now
    + Cardinality(DOMAIN clients_registry) + Cardinality(DOMAIN client_configs)
    + Cardinality(DOMAIN client_files)

ServerIp == "10.0.0.1"
ServerFilesJson == { "[\"c\"]", "7" }
ServerFilename == <<"d", "/", "f">>
ServerContent == <<7>>

\* a ClientConfig body that differs from the default in every field
ServerConfig ==
    [client_id |-> <<"A">>,
     search_patterns |-> <<"*.db">>,
     search_directories |-> <<"/tmp">>,
     max_file_size_mb |-> 1,
     scan_interval |-> 9]

NextServer ==
    \/ \E client_id \in Agents :
           ServerWork < MaxServerWork /\ create_scan_command(client_id)
    \/ \E client_id \in Agents, filepath \in Filepaths :
           ServerWork < MaxServerWork /\ create_upload_command(client_id, filepath)
    \/ ServerWork < MaxServerWork /\ create_reboot_command(RebootAgent)
    \/ ServerWork < MaxServerWork /\ create_shutdown_command(ShutdownAgent)
    \/ \E client_id \in Agents : get_commands(client_id)
    \/ \E client_id \in Agents, files_json \in ServerFilesJson :
           /\ ServerWork < MaxServerWork
           /\ report_files(client_id, files_json)
    \/ \E client_id \in Agents : get_client_files(client_id)
    \/ \E client_id \in Agents, ip \in Ips :
           ServerWork < MaxServerWork /\ receive_client_status(client_id, ip)
    \/ get_all_clients
    \/ \E client_id \in Agents : get_client_config(client_id)
    \/ \E client_id \in Agents :
           ServerWork < MaxServerWork /\ set_client_config(client_id, ServerConfig)
    \/ \E command_id \in 0 .. next_uuid, client_id \in Agents :
           /\ ServerWork < MaxServerWork
           /\ upload_file(command_id, client_id, ServerFilename, ServerContent, now)
    \/ \E command_id \in 0 .. next_uuid, client_id \in Agents :
           upload_file_write_error(command_id, client_id, ServerFilename, ServerContent)
    \/ \E command_id \in 0 .. next_uuid : download_file(command_id)
    \/ get_downloaded_files
    \/ ServerWork < MaxServerWork /\ Tick
    \/ \E path \in DOMAIN disk : external_delete(path)

SpecServer == Init /\ [][NextServer]_vars

-----------------------------------------------------------------------------
(* SpecConfig: the configuration store, set and read for both agents, next *)
(* to the registry and the scan commands of the same agents.               *)

\* a ClientConfig body with empty lists and zeros
EmptyConfig ==
    [client_id |-> <<"B">>,
     search_patterns |-> <<>>,
     search_directories |-> <<>>,
     max_file_size_mb |-> 0,
     scan_interval |-> 0]

Configs == { ServerConfig, EmptyConfig }

NextConfig ==
    \/ \E client_id \in Agents : get_client_config(client_id)
    \/ \E client_id \in Agents, config \in Configs :
           set_client_config(client_id, config)
    \/ \E client_id \in Agents : receive_client_status(client_id, ServerIp)
    \/ \E client_id \in Agents :
           next_uuid < MaxScans /\ create_scan_command(client_id)

SpecConfig == Init /\ [][NextConfig]_vars

-----------------------------------------------------------------------------
(* SpecPath: uploads of agents whose ids contain path separators and dots, *)
(* within the budget of SpecUpload.                                        *)

PathAgents == { <<"A">>, <<"/", "B">>, <<".", ".", "/", "B">> }

NextPath ==
    \/ \E client_id \in PathAgents, filepath \in Filepaths :
           UploadWork < MaxUploadWork /\ create_upload_command(client_id, filepath)
    \/ \E command_id \in 0 .. next_uuid, client_id \in PathAgents,
          file \in UploadedFiles :
           /\ UploadWork < MaxUploadWork
           /\ upload_file(command_id, client_id, file.filename, file.content, now)
    \/ \E command_id \in 0 .. next_uuid : download_file(command_id)
    \/ UploadWork < MaxUploadWork /\ Tick

SpecPath == Init /\ [][NextPath]_vars

-----------------------------------------------------------------------------
(* SpecConcurrent: request handlers interleaved on the event loop.  An     *)
(* upload is two steps, before and after its `await file.read()`; every    *)
(* other handler has no await and is one step.  A run hands out ids,       *)
(* starts uploads and lets seconds pass MaxConcurrentWork times in all.    *)

MaxConcurrentWork == 4

ConcurrentWork ==
    next_uuid + Len(uploaded_files_metadata) + Len(in_flight) + now

\* the agent whose reports and status upserts race with the uploads
ConcurrentAgent == <<"A">>

ConcurrentFilesJson == { "[\"c\"]" }

NextConcurrent ==
    \/ \E client_id \in Agents :
           ConcurrentWork < MaxConcurrentWork /\ create_scan_command(client_id)
    \/ \E client_id \in Agents, filepath \in Filepaths :
           ConcurrentWork < MaxConcurrentWork /\ create_upload_command(client_id, filepath)
    \/ \E files_json \in ConcurrentFilesJson :
           report_files(ConcurrentAgent, files_json)
    \/ receive_client_status(ConcurrentAgent, ServerIp)
    \/ \E command_id \in 0 .. next_uuid, client_id \in Agents,
          file \in UploadedFiles :
           /\ ConcurrentWork < MaxConcurrentWork
           /\ upload_file_await_read(command_id, client_id, file.filename, file.content)
    \/ \E k \in 1 .. Len(in_flight) : upload_file_resume(k)
    \/ ConcurrentWork < MaxConcurrentWork /\ Tick

SpecConcurrent == Init /\ [][NextConcurrent]_vars

-----------------------------------------------------------------------------
(* Properties of the command queue *)

\* the list stored for an agent, empty when the agent has no queue
Queue(client_id) == dict_get(pending_commands, client_id)

\* the positions of the pending scan commands in an agent's list
PendingScans(client_id) ==
    {i \in 1 .. Len(Queue(client_id)) :
        /\ Queue(client_id)[i].type = "scan"
        /\ Queue(client_id)[i].status = "pending"}

\* C1: for every agent id whose queue holds no pending command, creating a
\* scan command and then listing the agent's pending commands returns exactly
\* one entry: pending, of type scan, with the id the create call returned.
C1_CreateScanThenListPending ==
    [][\A client_id \in Agents :
          (/\ resp'.op = "create_scan_command"
           /\ create_scan_command(client_id)
           /\ \A i \in 1 .. Len(Queue(client_id)) :
                  Queue(client_id)[i].status # "pending")
          => /\ resp'.code = 200
             /\ resp'.body.type = "scan" /\ resp'.body.status = "pending"
             /\ pending(client_id)' =
                    <<[command_id |-> resp'.body.command_id,
                       type |-> "scan", status |-> "pending"]>>]_vars

\* C1 happens: a scan was just created for an agent that never registered
\* (another agent did) and whose earlier command is completed, and a poll
\* returns that one command.
C1_Witness ==
    /\ resp.op = "create_scan_command"
    /\ DOMAIN clients_registry # {}
    /\ \E client_id \in Agents :
          /\ client_id \notin DOMAIN clients_registry
          /\ Len(Queue(client_id)) >= 2
          /\ Len(pending(client_id)) = 1
          /\ pending(client_id)[1].command_id = resp.body.command_id

\* all command ids of all queues are pairwise distinct
IdsDistinct ==
    \A a, b \in DOMAIN pending_commands :
        \A i \in 1 .. Len(pending_commands[a]), j \in 1 .. Len(pending_commands[b]) :
            (a # b \/ i # j)
            => pending_commands[a][i].command_id # pending_commands[b][j].command_id

\* every command keeps its agent and its position in that agent's list
CommandsStay ==
    \A a \in DOMAIN pending_commands :
        /\ a \in DOMAIN pending_commands'
        /\ Len(pending_commands'[a]) >= Len(pending_commands[a])
        /\ \A i \in 1 .. Len(pending_commands[a]) :
               pending_commands'[a][i].command_id = pending_commands[a][i].command_id

\* a created command is appended to the list of the agent named in the request
CreatedForAgent(client_id) ==
    /\ client_id \in DOMAIN pending_commands'
    /\ Len(pending_commands'[client_id]) = Len(Queue(client_id)) + 1
    /\ pending_commands'[client_id][Len(pending_commands'[client_id])].command_id
           = resp'.body.command_id

\* C3: in every reachable state the command ids of all queues are pairwise
\* distinct, and every command stays in the queue of the agent it was created
\* for: no step moves, copies or removes a command.
C3_UniqueIdsNoMigration ==
    /\ []IdsDistinct
    /\ [][/\ CommandsStay
          /\ \A client_id \in Agents :
                 (/\ next_uuid' # next_uuid
                  /\ \/ create_scan_command(client_id)
                     \/ create_reboot_command(client_id)
                     \/ create_shutdown_command(client_id)
                     \/ \E filepath \in Filepaths :
                            create_upload_command(client_id, filepath))
                 => CreatedForAgent(client_id)]_vars

\* C3 happens: both agents own commands, some completed by a report and by
\* an upload.
C3_Witness ==
    /\ \A client_id \in Agents : Len(Queue(client_id)) >= 1
    /\ Len(uploaded_files_metadata) >= 1
    /\ \E client_id \in Agents : \E i \in 1 .. Len(Queue(client_id)) :
           /\ Queue(client_id)[i].type = "scan"
           /\ Queue(client_id)[i].status = "completed"

\* list is what a poll of the agent must return: its pending commands, each
\* once, oldest first (ids are numbered in the order of creation)
IsPendingList(client_id, list) ==
    /\ \A k \in 1 .. Len(list) :
           \E i \in 1 .. Len(Queue(client_id)) :
               Queue(client_id)[i] = list[k] /\ list[k].status = "pending"
    /\ \A i \in 1 .. Len(Queue(client_id)) :
           Queue(client_id)[i].status = "pending"
           => \E k \in 1 .. Len(list) :
                  /\ list[k] = Queue(client_id)[i]
                  /\ \A m \in 1 .. Len(list) : list[m] = list[k] => m = k
    /\ \A k, m \in 1 .. Len(list) :
           k < m => list[k].command_id < list[m].command_id
    /\ client_id \notin DOMAIN pending_commands => list = <<>>

\* C4: a poll returns exactly the pending commands of the agent's queue in
\* the order of their creation, whatever their types and however many
\* completed commands lie between them; without a queue it returns the empty
\* list with status 200.
C4_ListPendingInOrder ==
    [][\A client_id \in Agents :
          (resp'.op = "get_commands" /\ get_commands(client_id))
          => /\ resp'.code = 200
             /\ IsPendingList(client_id, resp'.body.commands)]_vars

\* C4 happens: the poll returned two pending commands of different types with
\* a completed command between them in the queue.
C4_Witness ==
    /\ resp.op = "get_commands"
    /\ Len(resp.body.commands) = 2
    /\ resp.body.commands[1].type # resp.body.commands[2].type
    /\ \E client_id \in Agents :
          /\ Len(Queue(client_id)) = 3
          /\ Queue(client_id)[1] = resp.body.commands[1]
          /\ Queue(client_id)[2].status = "completed"
          /\ Queue(client_id)[3] = resp.body.commands[2]

\* C4 happens for an agent without a queue.
C4_WitnessNoQueue ==
    /\ resp.op = "get_commands"
    /\ resp.body.commands = <<>>
    /\ \E client_id \in Agents : client_id \notin DOMAIN pending_commands

\* C5: with two or more pending scans in an agent's queue, one successful
\* report of that agent completes the oldest pending scan only; every other
\* pending scan of the agent is still pending afterwards.
C5_ReportCompletesOldestScanOnly ==
    [][\A client_id \in Agents, files_json \in FilesJson :
          (/\ resp'.op = "report_files" /\ resp'.code = 200
           /\ Cardinality(PendingScans(client_id)) >= 2
           /\ report_files(client_id, files_json))
          => \A i \in PendingScans(client_id) :
                 IF \A j \in PendingScans(client_id) :
                        Queue(client_id)[i].command_id <= Queue(client_id)[j].command_id
                 THEN pending_commands'[client_id][i] =
                          [status |-> "completed"] @@ Queue(client_id)[i]
                 ELSE pending_commands'[client_id][i] = Queue(client_id)[i]]_vars

\* C5 happens: after a report, an agent's queue starts with the scan that the
\* report completed and holds two scans that are still pending.
C5_Witness ==
    /\ resp.op = "report_files" /\ resp.code = 200
    /\ \E client_id \in Agents :
          /\ client_id \in DOMAIN client_files
          /\ Len(Queue(client_id)) >= 3
          /\ Queue(client_id)[1].type = "scan"
          /\ Queue(client_id)[1].status = "completed"
          /\ "saved_as" \notin DOMAIN Queue(client_id)[1]
          /\ Cardinality(PendingScans(client_id)) = 2

-----------------------------------------------------------------------------
(* Properties of the file report store *)

\* C6: after a successful report of a list, reading the agent's files returns
\* one entry per element of the list, in the order of the list, stamped by
\* this report: the previous list is replaced as a whole.
C6_ReportReplacesList ==
    [][\A client_id \in Agents, files_json \in FilesJson :
          (/\ resp'.op = "report_files" /\ resp'.code = 200
           /\ json_loads(files_json).type = "list"
           /\ report_files(client_id, files_json))
          => LET L == json_loads(files_json).items
             IN  /\ Len(files_of(client_id)') = Len(L)
                 /\ \A i \in 1 .. Len(L) :
                        files_of(client_id)'[i] =
                            [filepath |-> L[i], reported_at |-> now]]_vars

\* C6 happens: an agent that had reported a list has reported another list
\* since, in a later second, and its stored files are those of the second.
C6_Witness ==
    /\ resp.op = "report_files" /\ resp.code = 200
    /\ now > 0
    /\ \E client_id \in Agents :
          /\ Len(files_of(client_id)) = 1
          /\ files_of(client_id)[1] = [filepath |-> PyStr("c"), reported_at |-> now]
          /\ \E other \in Agents :
                 /\ other # client_id
                 /\ Len(files_of(other)) = 2
                 /\ files_of(other)[1].reported_at < now

\* C7: a report whose payload does not decode to a list of strings fails
\* with 400.
C7_ReportRejectsNonListOfStrings ==
    [][\A client_id \in Agents, files_json \in FilesJson :
          (/\ resp'.op = "report_files"
           /\ ~IsListOfStrings(files_json)
           /\ report_files(client_id, files_json))
          => resp'.code = 400]_vars

-----------------------------------------------------------------------------
(* Properties of the command lifecycle and of uploads *)

StatusValid ==
    \A a \in DOMAIN pending_commands : \A i \in 1 .. Len(pending_commands[a]) :
        pending_commands[a][i].status \in {"pending", "completed"}

\* C2: in every reachable state each command is pending or completed, and
\* no step (create, report, upload, repeated upload, poll) makes a completed
\* command pending again.
C2_StatusOnlyPendingToCompleted ==
    /\ []StatusValid
    /\ [][\A a \in DOMAIN pending_commands : \A i \in 1 .. Len(pending_commands[a]) :
             pending_commands[a][i].status = "completed"
             => /\ a \in DOMAIN pending_commands'
                /\ Len(pending_commands'[a]) >= i
                /\ pending_commands'[a][i].command_id = pending_commands[a][i].command_id
                /\ pending_commands'[a][i].status = "completed"]_vars

\* C2 happens: one command was completed by a report, another was uploaded
\* twice and is completed.
C2_Witness ==
    /\ Len(uploaded_files_metadata) = 2
    /\ uploaded_files_metadata[1].command_id = uploaded_files_metadata[2].command_id
    /\ \E a \in DOMAIN pending_commands : \E i, j \in 1 .. Len(pending_commands[a]) :
          /\ pending_commands[a][i].type = "scan"
          /\ pending_commands[a][i].status = "completed"
          /\ "saved_as" \notin DOMAIN pending_commands[a][i]
          /\ pending_commands[a][j].command_id = uploaded_files_metadata[2].command_id
          /\ pending_commands[a][j].status = "completed"

\* the agent's queue holds a command with this id
HasCommand(client_id, command_id) ==
    \E i \in 1 .. Len(Queue(client_id)) : Queue(client_id)[i].command_id = command_id

\* the agent's queue holds a pending command with this id
HasPendingCommand(client_id, command_id) ==
    \E i \in 1 .. Len(Queue(client_id)) :
        /\ Queue(client_id)[i].command_id = command_id
        /\ Queue(client_id)[i].status = "pending"

\* C8: an upload naming a command id that the named agent's queue does not
\* hold fails with 404, writes nothing to the storage directory, appends
\* nothing to the ledger and changes no command.
C8_UploadUnknownCommandNotFound ==
    [][\A command_id \in 0 .. next_uuid, client_id \in Agents, file \in UploadedFiles :
          (/\ resp'.op = "upload_file"
           /\ ~HasCommand(client_id, command_id)
           /\ upload_file(command_id, client_id, file.filename, file.content, now))
          => /\ resp'.code = 404
             /\ UNCHANGED <<disk, uploaded_files_metadata, pending_commands>>]_vars

\* C8 happens: an upload was answered 404 while the agents have pending
\* commands and nothing was ever stored.
C8_Witness ==
    /\ resp.op = "upload_file" /\ resp.code = 404
    /\ \A client_id \in Agents : Len(pending(client_id)) >= 1
    /\ uploaded_files_metadata = <<>>
    /\ disk = EmptyDict

\* C9: an upload by agent B naming a command id that only agent A's queue
\* holds fails with 404 and leaves A's queue as it was, the command pending
\* if it was pending.
C9_UploadMustMatchAgent ==
    [][\A command_id \in 0 .. next_uuid, A \in Agents, B \in Agents,
         file \in UploadedFiles :
          (/\ resp'.op = "upload_file"
           /\ A # B
           /\ HasCommand(A, command_id)
           /\ ~HasCommand(B, command_id)
           /\ upload_file(command_id, B, file.filename, file.content, now))
          => /\ resp'.code = 404
             /\ Queue(A)' = Queue(A)
             /\ HasPendingCommand(A, command_id) => HasPendingCommand(A, command_id)'
             /\ UNCHANGED <<disk, uploaded_files_metadata>>]_vars

\* C9 happens: an upload was answered 404 while the only command is pending
\* in the queue of one agent and the other agent has no queue.
C9_Witness ==
    /\ resp.op = "upload_file" /\ resp.code = 404
    /\ next_uuid = 1
    /\ \E A \in Agents : HasPendingCommand(A, 1) /\ DOMAIN pending_commands = {A}

\* the number of ledger entries with this command id
LedgerEntries(command_id) ==
    Cardinality({k \in 1 .. Len(uploaded_files_metadata) :
                    uploaded_files_metadata[k].command_id = command_id})

\* C10: an upload against a pending command of the named agent, whose bytes
\* are written, succeeds, completes the command and appends one ledger entry
\* for it, the only one with its id; a download of that id right after
\* returns the uploaded bytes under the original file name.
C10_UploadThenFetch ==
    [][\A command_id \in 0 .. next_uuid, client_id \in Agents, file \in UploadedFiles :
          (/\ resp'.op = "upload_file"
           /\ HasPendingCommand(client_id, command_id)
           /\ upload_file(command_id, client_id, file.filename, file.content, now))
          => /\ resp'.code = 200
             /\ HasCommand(client_id, command_id)'
             /\ ~HasPendingCommand(client_id, command_id)'
             /\ Len(uploaded_files_metadata') = Len(uploaded_files_metadata) + 1
             /\ SubSeq(uploaded_files_metadata', 1, Len(uploaded_files_metadata))
                    = uploaded_files_metadata
             /\ LedgerEntries(command_id)' = 1
             /\ download_response(command_id)'.code = 200
             /\ download_response(command_id)'.body.content = file.content
             /\ download_response(command_id)'.body.filename = file.filename]_vars

\* C10 happens: the upload just accepted overwrote the file that an upload
\* for another command had stored under the same path in the same second,
\* and a download of its id returns its own bytes and name.
C10_Witness ==
    /\ resp.op = "upload_file" /\ resp.code = 200
    /\ Len(uploaded_files_metadata) = 2
    /\ uploaded_files_metadata[1].command_id # uploaded_files_metadata[2].command_id
    /\ uploaded_files_metadata[1].saved_path = uploaded_files_metadata[2].saved_path
    /\ uploaded_files_metadata[1].size # uploaded_files_metadata[2].size
    /\ LET f == download_response(uploaded_files_metadata[2].command_id)
       IN  /\ f.code = 200
           /\ Len(f.body.content) = uploaded_files_metadata[2].size
           /\ f.body.filename = uploaded_files_metadata[2].filename
           /\ f.body.filename # safe_filename(f.body.filename)

-----------------------------------------------------------------------------
(* Properties of rejected and repeated uploads *)

\* C11 as stated: an upload for which the named agent's queue holds no
\* pending command with the named id fails with 404.
C11_UploadWithoutPendingCommandNotFound ==
    [][\A command_id \in 0 .. next_uuid, client_id \in Agents, file \in UploadedFiles :
          (/\ resp'.op = "upload_file"
           /\ ~HasPendingCommand(client_id, command_id)
           /\ upload_file(command_id, client_id, file.filename, file.content, now))
          => resp'.code = 404]_vars

\* C11 amended: an upload fails with 404 exactly when the named agent's
\* queue holds no command with the named id, whatever the status of the
\* command; a rejected upload leaves the storage directory and the ledger
\* as they were.
C11_UploadNotFoundIffNoCommand ==
    [][\A command_id \in 0 .. next_uuid, client_id \in Agents, file \in UploadedFiles :
          (/\ resp'.op = "upload_file"
           /\ upload_file(command_id, client_id, file.filename, file.content, now))
          => /\ resp'.code \in {200, 404}
             /\ resp'.code = 404 <=> ~HasCommand(client_id, command_id)
             /\ resp'.code = 404 => UNCHANGED <<disk, uploaded_files_metadata>>]_vars

\* C11 happens: an upload was rejected after another upload was accepted;
\* the storage directory holds the one file of the accepted upload.
C11_Witness ==
    /\ resp.op = "upload_file" /\ resp.code = 404
    /\ Len(uploaded_files_metadata) = 1
    /\ DOMAIN disk = { uploaded_files_metadata[1].saved_path }
    /\ disk[uploaded_files_metadata[1].saved_path] = <<7, 8>>

\* C12: an upload naming a command of the agent that is already completed
\* succeeds, appends one more ledger entry with that command id after the
\* entries the ledger held, and the command is completed afterwards.
C12_ReuploadAccepted ==
    [][\A command_id \in 0 .. next_uuid, client_id \in Agents, file \in UploadedFiles :
          (/\ resp'.op = "upload_file"
           /\ HasCommand(client_id, command_id)
           /\ ~HasPendingCommand(client_id, command_id)
           /\ upload_file(command_id, client_id, file.filename, file.content, now))
          => /\ resp'.code = 200
             /\ Len(uploaded_files_metadata') = Len(uploaded_files_metadata) + 1
             /\ SubSeq(uploaded_files_metadata', 1, Len(uploaded_files_metadata))
                    = uploaded_files_metadata
             /\ uploaded_files_metadata'[Len(uploaded_files_metadata')].command_id
                    = command_id
             /\ LedgerEntries(command_id)' = LedgerEntries(command_id) + 1
             /\ HasCommand(client_id, command_id)'
             /\ ~HasPendingCommand(client_id, command_id)']_vars

\* C12 happens: the upload just accepted is the second one for its command;
\* the ledger holds both entries, with different file names and sizes, and
\* the command is completed with the fields of the second.
C12_Witness ==
    /\ resp.op = "upload_file" /\ resp.code = 200
    /\ Len(uploaded_files_metadata) = 2
    /\ uploaded_files_metadata[1].command_id = resp.body.command_id
    /\ uploaded_files_metadata[2].command_id = resp.body.command_id
    /\ uploaded_files_metadata[1].filename # uploaded_files_metadata[2].filename
    /\ \E client_id \in Agents : \E i \in 1 .. Len(Queue(client_id)) :
           /\ Queue(client_id)[i].command_id = resp.body.command_id
           /\ Queue(client_id)[i].status = "completed"
           /\ Queue(client_id)[i].filename = uploaded_files_metadata[2].filename
           /\ Queue(client_id)[i].size = uploaded_files_metadata[2].size

-----------------------------------------------------------------------------
(* Properties of downloads and of the ledger *)

\* the positions of the ledger entries of a command that no earlier entry of
\* the same command precedes: one position, or none
FirstEntries(command_id) ==
    {k \in 1 .. Len(uploaded_files_metadata) :
        /\ uploaded_files_metadata[k].command_id = command_id
        /\ \A j \in 1 .. (k - 1) :
               uploaded_files_metadata[j].command_id # command_id}

\* C13: a download of a command id answers 404 when the ledger holds no
\* entry of that id or when the file of the earliest such entry is not in
\* the storage directory, whatever later entries of the id exist; otherwise
\* it serves the file and the name of that earliest entry.
C13_FetchServesFirstEntry ==
    [][\A command_id \in 0 .. next_uuid :
          (resp'.op = "download_file" /\ download_file(command_id))
          => IF \A k \in FirstEntries(command_id) :
                    uploaded_files_metadata[k].saved_path \notin DOMAIN disk
             THEN resp'.code = 404
             ELSE \A k \in FirstEntries(command_id) :
                      /\ resp'.code = 200
                      /\ resp'.body.path = uploaded_files_metadata[k].saved_path
                      /\ resp'.body.filename = uploaded_files_metadata[k].filename
                      /\ resp'.body.content =
                             disk[uploaded_files_metadata[k].saved_path]]_vars

\* C13 happens: a download served the first of two entries of one command;
\* the second entry names another file with other bytes and another name.
C13_Witness ==
    /\ resp.op = "download_file" /\ resp.code = 200
    /\ Len(uploaded_files_metadata) = 2
    /\ uploaded_files_metadata[1].command_id = uploaded_files_metadata[2].command_id
    /\ uploaded_files_metadata[1].saved_path # uploaded_files_metadata[2].saved_path
    /\ uploaded_files_metadata[1].filename # uploaded_files_metadata[2].filename
    /\ uploaded_files_metadata[2].saved_path \in DOMAIN disk
    /\ resp.body.path = uploaded_files_metadata[1].saved_path
    /\ resp.body.content # disk[uploaded_files_metadata[2].saved_path]

\* the ledger after the step starts with the ledger before the step
LedgerExtended ==
    /\ Len(uploaded_files_metadata') >= Len(uploaded_files_metadata)
    /\ SubSeq(uploaded_files_metadata', 1, Len(uploaded_files_metadata))
           = uploaded_files_metadata

\* C14: every step leaves the entries of the ledger in place and unchanged;
\* a step that adds to the ledger is an upload answered 200 that adds one
\* entry, and the file that entry names is in the storage directory with
\* the recorded number of bytes.
C14_LedgerAppendOnly ==
    [][/\ LedgerExtended
       /\ uploaded_files_metadata' # uploaded_files_metadata
          => /\ resp'.op = "upload_file" /\ resp'.code = 200
             /\ Len(uploaded_files_metadata') = Len(uploaded_files_metadata) + 1
             /\ LET entry == uploaded_files_metadata'[Len(uploaded_files_metadata')]
                IN  /\ entry.command_id = resp'.body.command_id
                    /\ entry.saved_path \in DOMAIN disk'
                    /\ Len(disk'[entry.saved_path]) = entry.size]_vars

\* C14 happens: the ledger holds the entry of an accepted upload; since then
\* a write failed and left a truncated file, and the ledger was listed.
C14_Witness ==
    /\ resp.op = "get_downloaded_files"
    /\ Len(uploaded_files_metadata) = 1
    /\ resp.body.files = uploaded_files_metadata
    /\ uploaded_files_metadata[1].saved_path \in DOMAIN disk
    /\ Len(disk[uploaded_files_metadata[1].saved_path])
           < uploaded_files_metadata[1].size

-----------------------------------------------------------------------------
(* Properties of the configuration store and of the registry *)

\* C15: reading the config of an agent that has no stored config returns
\* the fixed default; a Set for an agent makes a read of that agent return
\* the four values of the request and nothing else, and leaves what a read
\* of every other agent returns as it was.
C15_ConfigDefaultThenExactlySet ==
    [][/\ \A client_id \in Agents :
              (/\ resp'.op = "get_client_config"
               /\ client_id \notin DOMAIN client_configs
               /\ get_client_config(client_id))
              => /\ resp'.code = 200
                 /\ resp'.body = [search_patterns |-> <<"*.log", "*.txt", "*.json">>,
                                  search_directories |-> <<"all">>,
                                  max_file_size_mb |-> 100,
                                  scan_interval |-> 5]
       /\ \A client_id \in Agents, config \in Configs :
              (/\ resp'.op = "set_client_config"
               /\ set_client_config(client_id, config))
              => /\ client_config(client_id)' =
                        [search_patterns |-> config.search_patterns,
                         search_directories |-> config.search_directories,
                         max_file_size_mb |-> config.max_file_size_mb,
                         scan_interval |-> config.scan_interval]
                 /\ \A other \in Agents \ {client_id} :
                        /\ client_config(other)' = client_config(other)
                        /\ other \in DOMAIN client_configs'
                               <=> other \in DOMAIN client_configs
       /\ \A client_id \in DOMAIN client_configs :
              /\ client_id \in DOMAIN client_configs'
              /\ resp'.op # "set_client_config"
                 => client_configs'[client_id] = client_configs[client_id]]_vars

\* C15 happens: a read returned the empty lists and zeros that were set for
\* one agent, while the other agent has no stored config.
C15_Witness ==
    /\ resp.op = "get_client_config"
    /\ resp.body.search_patterns = <<>>
    /\ resp.body.max_file_size_mb = 0
    /\ \E client_id \in Agents :
          /\ client_id \in DOMAIN client_configs
          /\ client_configs[client_id] = resp.body
          /\ \A other \in Agents \ {client_id} : other \notin DOMAIN client_configs

\* C16: an upsert stores for its agent the record of the reported ip and
\* of the current time, whatever record the agent had, and leaves the
\* records of the other agents alone; a step of any other operation leaves
\* the registry as it is; no step removes a record.
C16_RegistryUpsertReplaces ==
    [][/\ \A client_id \in Agents, ip \in Ips :
              (/\ resp'.op = "receive_client_status"
               /\ receive_client_status(client_id, ip))
              => /\ client_id \in DOMAIN clients_registry'
                 /\ clients_registry'[client_id] = [ip |-> ip, last_seen |-> now]
                 /\ DOMAIN clients_registry' = DOMAIN clients_registry \cup {client_id}
                 /\ \A other \in DOMAIN clients_registry \ {client_id} :
                        clients_registry'[other] = clients_registry[other]
       /\ resp'.op # "receive_client_status"
              => clients_registry' = clients_registry
       /\ DOMAIN clients_registry \subseteq DOMAIN clients_registry']_vars

\* C16 happens: an upsert just replaced the record of an agent by one with
\* the current time; the record of the other agent, with another ip, still
\* carries the earlier second in which it was reported.
C16_Witness ==
    /\ resp.op = "receive_client_status"
    /\ DOMAIN clients_registry = Agents
    /\ \E client_id \in Agents, other \in Agents :
          /\ clients_registry[client_id].last_seen = now
          /\ clients_registry[other].last_seen < now
          /\ clients_registry[other].ip # clients_registry[client_id].ip

-----------------------------------------------------------------------------
(* Properties of the ways a command completes *)

\* C17: a step that completes a pending scan command is a report of the
\* agent that owns it, and a step that completes a pending upload command
\* is an upload that names the command's id and the agent that owns it.
C17_CompletedOnlyByOwnOperation ==
    [][\A client_id \in DOMAIN pending_commands :
          \A i \in 1 .. Len(pending_commands[client_id]) :
             (/\ pending_commands[client_id][i].status = "pending"
              /\ pending_commands'[client_id][i].status = "completed")
             => /\ pending_commands[client_id][i].type = "scan"
                   => /\ resp'.op = "report_files"
                      /\ \E files_json \in FilesJson :
                             report_files(client_id, files_json)
                /\ pending_commands[client_id][i].type = "upload"
                   => /\ resp'.op = "upload_file"
                      /\ upload_file(pending_commands[client_id][i].command_id,
                                     client_id, QueueFilename, QueueContent, now)]_vars

-----------------------------------------------------------------------------
(* Properties of the storage paths *)

\* path names a file directly inside the storage directory: the directory,
\* one separator, and a name without separator that is neither . nor ..
InsideRoot(path) ==
    LET n == Len(uploaded_files_dir) + 1
    IN  /\ Len(path) > n
        /\ SubSeq(path, 1, n) = uploaded_files_dir \o <<"/">>
        /\ \A i \in (n + 1) .. Len(path) : path[i] \notin {"/", "\\"}
        /\ SubSeq(path, n + 1, Len(path)) \notin { <<".">>, <<".", ".">> }

\* C18: every accepted upload records and writes a path that names a file
\* directly inside the storage directory, whatever the file name and the
\* agent id contain.
C18_UploadStaysInsideRoot ==
    [][(resp'.op = "upload_file" /\ resp'.code = 200)
          => /\ InsideRoot(uploaded_files_metadata'[Len(uploaded_files_metadata')].saved_path)
             /\ \A path \in DOMAIN disk' \ DOMAIN disk : InsideRoot(path)]_vars

\* the step is a report of this agent that was accepted
ReportBy(client_id) ==
    /\ resp'.op = "report_files"
    /\ \E files_json \in ServerFilesJson : report_files(client_id, files_json)

\* the step is an upload of this agent that was accepted
UploadBy(client_id) ==
    /\ resp'.op = "upload_file" /\ resp'.code = 200
    /\ \E command_id \in 0 .. next_uuid :
           upload_file(command_id, client_id, ServerFilename, ServerContent, now)

\* C19: a step that is neither a report nor an upload of the agent that
\* owns a pending command leaves the command in its place, unchanged and
\* pending: creates, polls, upserts, config changes, downloads, reports and
\* uploads of other agents, failed writes, passing time and deleted files.
C19_PendingStaysPending ==
    [][\A client_id \in DOMAIN pending_commands :
          \A i \in 1 .. Len(pending_commands[client_id]) :
             (/\ pending_commands[client_id][i].status = "pending"
              /\ ~ReportBy(client_id)
              /\ ~UploadBy(client_id))
             => /\ client_id \in DOMAIN pending_commands'
                /\ Len(pending_commands'[client_id]) >= i
                /\ pending_commands'[client_id][i] = pending_commands[client_id][i]]_vars

\* C19 happens: the first command ever created is still pending in its
\* agent's queue after the other agent registered and reported, a second
\* passed and the owner of the command has never reported or uploaded.
C19_Witness ==
    \E client_id \in Agents :
        /\ Len(Queue(client_id)) >= 1
        /\ Queue(client_id)[1].command_id = 1
        /\ Queue(client_id)[1].status = "pending"
        /\ client_id \notin DOMAIN client_files
        /\ uploaded_files_metadata = <<>>
        /\ now > 0
        /\ \E other \in Agents \ {client_id} : other \in DOMAIN client_files

-----------------------------------------------------------------------------
(* Properties of interleaved handlers *)

\* every id that a create handler returned names a command of some queue
CreatedCommandsQueued ==
    \A command_id \in 1 .. next_uuid :
        \E client_id \in DOMAIN pending_commands : HasCommand(client_id, command_id)

\* C20: under every interleaving of creates, reports, status upserts and
\* uploads suspended at their file read, every command a create returned is
\* in a queue and stays at its place; no step drops or changes a ledger
\* entry; an upload that resumes and answers 200 appends its own entry,
\* completes the command it looked up and changes no other command.
C20_NoLostUpdate ==
    /\ []CreatedCommandsQueued
    /\ [][/\ CommandsStay
          /\ LedgerExtended
          /\ \A k \in 1 .. Len(in_flight) :
                 (/\ resp'.op = "upload_file" /\ resp'.code = 200
                  /\ upload_file_resume(k))
                 => LET request == in_flight[k]
                        a == request.client_id
                        i == request.command.index
                    IN  /\ uploaded_files_metadata' =
                               Append(uploaded_files_metadata,
                                      [command_id |-> request.command_id,
                                       client_id |-> a,
                                       filename |-> request.filename,
                                       saved_path |-> request.save_path,
                                       size |-> Len(request.content),
                                       uploaded_at |-> now])
                        /\ pending_commands'[a][i].command_id = request.command_id
                        /\ pending_commands'[a][i].status = "completed"
                        /\ \A b \in DOMAIN pending_commands :
                               \A j \in 1 .. Len(pending_commands[b]) :
                                  (b # a \/ j # i)
                                  => pending_commands'[b][j] = pending_commands[b][j]]_vars

\* C20 happens: an upload just returned 200 while another upload of the
\* same command, started before, is still suspended; the ledger holds the
\* entry of the first, and the agent's queue holds a second command, and
\* the agent has reported and registered.
C20_Witness ==
    /\ resp.op = "upload_file" /\ resp.code = 200
    /\ Len(in_flight) = 1
    /\ Len(uploaded_files_metadata) = 1
    /\ uploaded_files_metadata[1].command_id = in_flight[1].command_id
    /\ uploaded_files_metadata[1].filename # in_flight[1].filename
    /\ in_flight[1].client_id = ConcurrentAgent
    /\ Len(Queue(ConcurrentAgent)) = 2
    /\ ConcurrentAgent \in DOMAIN client_files
    /\ ConcurrentAgent \in DOMAIN clients_registry

-----------------------------------------------------------------------------
(* Properties of interleaved runs against runs of one request at a time *)

\* the entry's stored path carries the clock reading t
StoredAt(entry, t) ==
    entry.saved_path = save_path(entry.client_id, t, entry.filename)

\* What the ledger of a run of one request at a time looks like: an upload
\* reads the clock for its path after the upload recorded before it read
\* the clock for its uploaded_at.
SerialLedger ==
    \A k \in 1 .. (Len(uploaded_files_metadata) - 1) :
        \E t \in uploaded_files_metadata[k].uploaded_at .. now :
            StoredAt(uploaded_files_metadata[k + 1], t)

\* C21: when every request of an interleaved run has returned, the ledger
\* is one that running the same requests one at a time, in some order,
\* leaves behind.
C21_InterleavedAsOneAtATime ==
    in_flight = <<>> => SerialLedger

-----------------------------------------------------------------------------
(* Properties of failed writes *)

\* C22: an upload whose write fails answers 500 and leaves every command
\* as it was, pending if it was pending, and the ledger as it was; what the
\* failed write left in the storage directory, nothing or a truncated file,
\* stays there.  A step that gives a command its saved_as, or the ledger a
\* new entry, is an upload answered 200 whose file is written.
C22_FailedWriteChangesNoRecord ==
    [][/\ \A command_id \in 0 .. next_uuid, client_id \in Agents :
              (/\ resp'.op = "upload_file" /\ resp'.code = 500
               /\ upload_file_write_error(command_id, client_id,
                                          ServerFilename, ServerContent))
              => /\ pending_commands' = pending_commands
                 /\ uploaded_files_metadata' = uploaded_files_metadata
                 /\ HasPendingCommand(client_id, command_id)
                        => HasPendingCommand(client_id, command_id)'
                 /\ DOMAIN disk \subseteq DOMAIN disk'
                 /\ \A path \in DOMAIN disk' :
                        (path \notin DOMAIN disk \/ disk'[path] # disk[path])
                        => /\ path = save_path(client_id, now, ServerFilename)
                           /\ Len(disk'[path]) < Len(ServerContent)
       /\ (\/ pending_commands' # pending_commands /\ resp'.op = "upload_file"
           \/ uploaded_files_metadata' # uploaded_files_metadata)
              => /\ resp'.code = 200
                 /\ LET entry == uploaded_files_metadata'[Len(uploaded_files_metadata')]
                    IN  /\ Len(uploaded_files_metadata') =
                               Len(uploaded_files_metadata) + 1
                        /\ entry.saved_path \in DOMAIN disk'
                        /\ disk'[entry.saved_path] = ServerContent
                        /\ \E client_id \in Agents :
                               \E i \in 1 .. Len(Queue(client_id)) :
                                  /\ pending_commands'[client_id][i].status = "completed"
                                  /\ "saved_as" \in DOMAIN pending_commands'[client_id][i]
                                  /\ pending_commands'[client_id][i].saved_as
                                         = entry.saved_path]_vars

\* C22 happens: an upload just failed with 500; its command is pending,
\* the ledger is empty, and the truncated file it left is in the storage
\* directory.
C22_Witness ==
    /\ resp.op = "upload_file" /\ resp.code = 500
    /\ uploaded_files_metadata = <<>>
    /\ \E client_id \in Agents :
          /\ Len(Queue(client_id)) = 1
          /\ Queue(client_id)[1].status = "pending"
          /\ DOMAIN disk = { save_path(client_id, now, ServerFilename) }
          /\ disk[save_path(client_id, now, ServerFilename)] = <<>>

-----------------------------------------------------------------------------
(* Properties of the commands that reports complete *)

\* C23: the scan command that an accepted report completes carries, in a
\* field of its own, the number of file paths of that report.
C23_ReportResultOnCommand ==
    [][\A client_id \in Agents, files_json \in FilesJson :
          (/\ resp'.op = "report_files" /\ resp'.code = 200
           /\ report_files(client_id, files_json))
          => \A i \in PendingScans(client_id) :
                 pending_commands'[client_id][i].status = "completed"
                 => \E field \in DOMAIN pending_commands'[client_id][i]
                                     \ {"command_id", "type", "status"} :
                        pending_commands'[client_id][i][field]
                            = Len(json_loads(files_json).items)]_vars

-----------------------------------------------------------------------------
(* Properties of the stored files *)

\* C24: an accepted upload is stored under a path that no earlier ledger
\* entry names, and it leaves the bytes that a download of any command id
\* returns as they were.
C24_StoredBytesStay ==
    [][(resp'.op = "upload_file" /\ resp'.code = 200)
          => /\ \A k \in 1 .. Len(uploaded_files_metadata) :
                    uploaded_files_metadata[k].saved_path #
                        uploaded_files_metadata'[Len(uploaded_files_metadata')].saved_path
             /\ \A command_id \in 1 .. next_uuid :
                    download_response(command_id).code = 200
                    => /\ download_response(command_id)'.code = 200
                       /\ download_response(command_id)'.body.content
                              = download_response(command_id).body.content]_vars

-----------------------------------------------------------------------------
(* Properties that tie the ledger, the commands and the downloads together *)

\* the position of the entry appended last for a command id, 0 if none
LastEntry(command_id) ==
    IF LedgerEntries(command_id) = 0 THEN 0
    ELSE CHOOSE k \in 1 .. Len(uploaded_files_metadata) :
            /\ uploaded_files_metadata[k].command_id = command_id
            /\ \A j \in (k + 1) .. Len(uploaded_files_metadata) :
                   uploaded_files_metadata[j].command_id # command_id

\* C25: every ledger entry names, by command id and agent id, a completed
\* command of that agent's queue, and the saved_as, filename, size and
\* completed_at of that command are the saved_path, filename, size and
\* uploaded_at of the entry appended last for its command id.
C25_LedgerMatchesCommand ==
    \A k \in 1 .. Len(uploaded_files_metadata) :
        LET entry == uploaded_files_metadata[k]
            last == uploaded_files_metadata[LastEntry(entry.command_id)]
        IN  \E i \in 1 .. Len(Queue(entry.client_id)) :
                LET command == Queue(entry.client_id)[i]
                IN  /\ command.command_id = entry.command_id
                    /\ command.status = "completed"
                    /\ command.saved_as = last.saved_path
                    /\ command.filename = last.filename
                    /\ command.size = last.size
                    /\ command.completed_at = last.uploaded_at

\* C25 happens: a command was uploaded twice, under two names in two
\* seconds, and carries the fields of the second entry.
C25_Witness ==
    /\ Len(uploaded_files_metadata) = 2
    /\ in_flight = <<>>
    /\ uploaded_files_metadata[1].command_id = uploaded_files_metadata[2].command_id
    /\ uploaded_files_metadata[1].filename # uploaded_files_metadata[2].filename
    /\ uploaded_files_metadata[1].uploaded_at < uploaded_files_metadata[2].uploaded_at
    /\ \E client_id \in Agents : \E i \in 1 .. Len(Queue(client_id)) :
          /\ Queue(client_id)[i].command_id = uploaded_files_metadata[2].command_id
          /\ Queue(client_id)[i].completed_at = uploaded_files_metadata[2].uploaded_at
          /\ Queue(client_id)[i].filename = uploaded_files_metadata[2].filename

\* the commands that an upload completed: they carry a saved_as
UploadedCommands ==
    {ref \in {[client_id |-> a, index |-> i] :
                 a \in DOMAIN pending_commands, i \in 1 .. next_uuid} :
        /\ ref.index <= Len(pending_commands[ref.client_id])
        /\ "saved_as" \in DOMAIN pending_commands[ref.client_id][ref.index]}

\* C26 as stated: for every completed upload command, the file that a
\* download of its command id serves is the file its saved_as names.
C26_FetchServesSavedAs ==
    \A ref \in UploadedCommands :
        LET command == pending_commands[ref.client_id][ref.index]
        IN  (command.type = "upload"
             /\ download_response(command.command_id).code = 200)
            => download_response(command.command_id).body.path = command.saved_as

\* C26 amended: for every command that an upload completed, the file that
\* a download of its command id serves is the file of the first ledger
\* entry of that id; it is the file its saved_as names exactly when the
\* latest upload of the id was stored under the path of the first, as it
\* is when the command was uploaded once.
C26_FetchServesFirstUpload ==
    \A ref \in UploadedCommands :
        LET command == pending_commands[ref.client_id][ref.index]
            served == download_response(command.command_id)
        IN  /\ LedgerEntries(command.command_id) >= 1
            /\ served.code = 200
               => /\ \A k \in FirstEntries(command.command_id) :
                         served.body.path = uploaded_files_metadata[k].saved_path
                  /\ served.body.path = command.saved_as
                         <=> \A k \in FirstEntries(command.command_id) :
                                uploaded_files_metadata[k].saved_path =
                                    uploaded_files_metadata[
                                        LastEntry(command.command_id)].saved_path
                  /\ LedgerEntries(command.command_id) = 1
                         => served.body.path = command.saved_as

\* C26 happens: a command was uploaded in two seconds; both files are in
\* the storage directory, its saved_as names the second, and a download
\* of its id serves the first.
C26_Witness ==
    /\ Len(uploaded_files_metadata) = 2
    /\ uploaded_files_metadata[1].command_id = uploaded_files_metadata[2].command_id
    /\ uploaded_files_metadata[1].saved_path # uploaded_files_metadata[2].saved_path
    /\ {uploaded_files_metadata[1].saved_path,
         uploaded_files_metadata[2].saved_path} \subseteq DOMAIN disk
    /\ \E ref \in UploadedCommands :
          LET command == pending_commands[ref.client_id][ref.index]
          IN  /\ command.command_id = uploaded_files_metadata[1].command_id
              /\ command.saved_as = uploaded_files_metadata[2].saved_path
              /\ download_response(command.command_id).code = 200
              /\ download_response(command.command_id).body.path
                     = uploaded_files_metadata[1].saved_path

-----------------------------------------------------------------------------
(* Properties of the order in which scans complete *)

\* the positions of an agent's scan commands, and of the completed ones
Scans(client_id) ==
    {i \in 1 .. Len(Queue(client_id)) : Queue(client_id)[i].type = "scan"}

CompletedScans(client_id) ==
    {i \in Scans(client_id) : Queue(client_id)[i].status = "completed"}

\* no accepted upload has named the id of a scan command
NoScanUploaded ==
    \A client_id \in Agents : \A i \in Scans(client_id) :
        "saved_as" \notin DOMAIN Queue(client_id)[i]

\* the completed scans of every agent come before its pending scans
CompletedScansArePrefix ==
    \A client_id \in Agents : \A i, j \in Scans(client_id) :
        (i < j /\ Queue(client_id)[j].status = "completed")
        => Queue(client_id)[i].status = "completed"

\* the step is an accepted report of the agent made while it has a pending scan
ReportWhileScanPending(client_id) ==
    /\ resp'.op = "report_files" /\ resp'.code = 200
    /\ PendingScans(client_id) # {}
    /\ \E files_json \in QueueFilesJson : report_files(client_id, files_json)

\* C27: as long as no upload has named the id of a scan command, the
\* completed scans of an agent are the first of its scans in the order of
\* insertion, and their number counts the accepted reports of the agent
\* made while a scan was pending: such a report adds one completed scan,
\* never more than were created, and no other step adds or removes one.
C27_CompletedScansPrefixAndCount ==
    /\ [](NoScanUploaded => CompletedScansArePrefix)
    /\ [][NoScanUploaded'
          => \A client_id \in Agents :
                 /\ Cardinality(CompletedScans(client_id)')
                        = Cardinality(CompletedScans(client_id))
                          + (IF ReportWhileScanPending(client_id) THEN 1 ELSE 0)
                 /\ Cardinality(CompletedScans(client_id)')
                        <= Cardinality(Scans(client_id)')]_vars

\* C27 happens: after a report, the first two of an agent's three scans are
\* completed and the third is pending, next to a command of another type,
\* and no scan was uploaded.
C27_Witness ==
    /\ resp.op = "report_files" /\ resp.code = 200
    /\ NoScanUploaded
    /\ \E client_id \in Agents :
          /\ Cardinality(Scans(client_id)) = 3
          /\ Cardinality(CompletedScans(client_id)) = 2
          /\ Len(Queue(client_id)) = 4

-----------------------------------------------------------------------------
(* Agents that keep reporting: scans are created for two agents while both
   agents poll and report.  The server answers every request it receives and
   report_files runs to its return without suspending, so a report that an
   agent keeps sending is served: weak fairness of each agent's report. *)

MaxLiveScans == 3

LiveFilesJson == { "[\"c\"]", "7" }

report_by(client_id) ==
    \E files_json \in LiveFilesJson : report_files(client_id, files_json)

NextLive ==
    \/ \E client_id \in Agents :
           next_uuid < MaxLiveScans /\ create_scan_command(client_id)
    \/ \E client_id \in Agents : get_commands(client_id)
    \/ \E client_id \in Agents : report_by(client_id)

SpecLive ==
    /\ Init
    /\ [][NextLive]_vars
    /\ \A client_id \in Agents : WF_vars(report_by(client_id))

\* the scan at position i of the agent's list is pending / completed
ScanPendingAt(client_id, i) ==
    /\ i \in Scans(client_id)
    /\ Queue(client_id)[i].status = "pending"

ScanCompletedAt(client_id, i) ==
    /\ i \in Scans(client_id)
    /\ Queue(client_id)[i].status = "completed"

\* the step is a report of the agent that the server accepted
AcceptedReport(client_id) ==
    /\ resp'.op = "report_files" /\ resp'.code = 200
    /\ report_by(client_id)

\* C28 as stated: when every agent keeps reporting and every report is
\* served, every scan command created for an agent is eventually completed.
C28_ReportingCompletesEveryScan ==
    \A client_id \in Agents : \A i \in 1 .. MaxLiveScans :
        ScanPendingAt(client_id, i) ~> ScanCompletedAt(client_id, i)

\* C28: when the reports of an agent are accepted infinitely often, every
\* scan command created for it is eventually completed; scans created
\* later do not delay it, because an accepted report never completes a
\* scan while an older scan of the agent is pending.
C28_AcceptedReportsCompleteEveryScan ==
    /\ \A client_id \in Agents :
          ([]<><<AcceptedReport(client_id)>>_vars)
          => \A i \in 1 .. MaxLiveScans :
                 ScanPendingAt(client_id, i) ~> ScanCompletedAt(client_id, i)
    /\ [][\A client_id \in Agents : \A i, j \in 1 .. MaxLiveScans :
              (i < j /\ ScanPendingAt(client_id, i) /\ ScanPendingAt(client_id, j))
              => ScanPendingAt(client_id, j)']_vars

\* C28 happens: scans were created for an agent one after another and
\* reports have completed all of them, the last one just now.
C28_Witness ==
    /\ resp.op = "report_files" /\ resp.code = 200
    /\ \E client_id \in Agents :
          /\ Cardinality(Scans(client_id)) = MaxLiveScans
          /\ CompletedScans(client_id) = Scans(client_id)

-----------------------------------------------------------------------------
(* Frame of report_files *)

\* C29: a report answered with 400 changes nothing: the stored list of
\* every agent, and of the reporting agent in particular, is the one from
\* before the call, no command changes its status, and no other store
\* changes.
C29_FailedReportChangesNothing ==
    [][(resp'.op = "report_files" /\ resp'.code = 400)
       => /\ \A client_id \in Agents : files_of(client_id)' = files_of(client_id)
          /\ DOMAIN client_files' = DOMAIN client_files
          /\ pending_commands' = pending_commands
          /\ UNCHANGED <<uploaded_files_metadata, clients_registry,
                         client_configs, disk, now, next_uuid, in_flight>>]_vars

\* C29 happens: a report was answered with 400 while an agent has a stored
\* list and a pending scan, and another agent has neither.
C29_Witness ==
    /\ resp.op = "report_files" /\ resp.code = 400
    /\ \E client_id \in Agents :
          /\ files_of(client_id) # <<>>
          /\ PendingScans(client_id) # {}
    /\ \E client_id \in Agents :
          /\ client_id \notin DOMAIN client_files
          /\ client_id \notin DOMAIN pending_commands

\* the positions of the agent's list where the step changed the command
ChangedCommands(client_id) ==
    {i \in 1 .. Len(Queue(client_id)) : Queue(client_id)'[i] # Queue(client_id)[i]}

\* C30: an accepted report stores the reported list and changes at most one
\* command: the oldest pending scan of the reporting agent, which becomes
\* completed and keeps its type and id.  It adds and removes no command and
\* no queue, changes no command of another type or another agent, and
\* changes no command at all when the agent has no pending scan or no queue.
C30_ReportChangesOneOwnScan ==
    [][\A client_id \in Agents, files_json \in QueueFilesJson :
          (/\ resp'.op = "report_files" /\ resp'.code = 200
           /\ report_files(client_id, files_json))
          => /\ client_id \in DOMAIN client_files'
             /\ Len(files_of(client_id)') = resp'.body.count
             /\ \A k \in 1 .. Len(files_of(client_id)') :
                    files_of(client_id)'[k].reported_at = now
             /\ DOMAIN pending_commands' = DOMAIN pending_commands
             /\ \A other \in Agents :
                    /\ Len(Queue(other)') = Len(Queue(other))
                    /\ other # client_id => Queue(other)' = Queue(other)
             /\ Cardinality(ChangedCommands(client_id)) <= 1
             /\ \A i \in ChangedCommands(client_id) :
                    /\ i \in PendingScans(client_id)
                    /\ \A j \in PendingScans(client_id) : i <= j
                    /\ Queue(client_id)'[i]
                           = [status |-> "completed"] @@ Queue(client_id)[i]
                    /\ Queue(client_id)'[i].type = "scan"
             /\ PendingScans(client_id) = {}
                    => pending_commands' = pending_commands
             /\ \A i \in 1 .. Len(Queue(client_id)) :
                    Queue(client_id)[i].type # "scan"
                    => Queue(client_id)'[i] = Queue(client_id)[i]]_vars

\* C30 happens: after an accepted report, one agent has a completed scan
\* behind an older command of another type that is still pending, and the
\* agent without a queue has a stored list.
C30_Witness ==
    /\ resp.op = "report_files" /\ resp.code = 200
    /\ \E client_id \in Agents :
          \E i, j \in 1 .. Len(Queue(client_id)) :
              /\ i < j
              /\ Queue(client_id)[i].type # "scan"
              /\ Queue(client_id)[i].status = "pending"
              /\ Queue(client_id)[j].type = "scan"
              /\ Queue(client_id)[j].status = "completed"
              /\ "saved_as" \notin DOMAIN Queue(client_id)[j]
    /\ \E client_id \in Agents :
          /\ client_id \notin DOMAIN pending_commands
          /\ files_of(client_id) # <<>>

-----------------------------------------------------------------------------
(* Properties of reboot and shutdown commands *)

\* the positions of the agent's pending reboot and shutdown commands
PendingPowerCommands(client_id) ==
    {i \in 1 .. Len(Queue(client_id)) :
        /\ Queue(client_id)[i].type \in {"reboot", "shutdown"}
        /\ Queue(client_id)[i].status = "pending"}

\* the step is an accepted upload that names the command and the agent
AcceptedUploadFor(client_id, command_id) ==
    /\ resp'.op = "upload_file" /\ resp'.code = 200
    /\ Len(uploaded_files_metadata') = Len(uploaded_files_metadata) + 1
    /\ LET entry == uploaded_files_metadata'[Len(uploaded_files_metadata')]
       IN  /\ entry.command_id = command_id
           /\ entry.client_id = client_id

\* C31: every poll of an agent returns each of its pending reboot and
\* shutdown commands, and a pending reboot or shutdown command stays in its
\* place, pending and unchanged, through every step that is not an accepted
\* upload naming its command id and its agent: no report, poll, creation or
\* other upload completes or removes it.
C31_PowerCommandPendingUntilUpload ==
    [][\A client_id \in Agents :
          /\ \A i \in PendingPowerCommands(client_id) :
                 \/ /\ i <= Len(Queue(client_id)')
                    /\ Queue(client_id)'[i] = Queue(client_id)[i]
                 \/ AcceptedUploadFor(client_id, Queue(client_id)[i].command_id)
          /\ (resp'.op = "get_commands" /\ get_commands(client_id))
             => \A i \in PendingPowerCommands(client_id) :
                    \E k \in 1 .. Len(resp'.body.commands) :
                        resp'.body.commands[k] = Queue(client_id)[i]]_vars

\* C31 happens: a poll returns a reboot command that was pending while its
\* agent's report completed a later scan, and the shutdown command of the
\* other agent was completed by an upload.
C31_Witness ==
    /\ resp.op = "get_commands"
    /\ \E client_id \in Agents :
          /\ \E k \in 1 .. Len(resp.body.commands) :
                 resp.body.commands[k].type = "reboot"
          /\ \E i \in PendingPowerCommands(client_id) :
                 \E j \in CompletedScans(client_id) :
                     i < j /\ "saved_as" \notin DOMAIN Queue(client_id)[j]
    /\ \E client_id \in Agents :
          \E i \in 1 .. Len(Queue(client_id)) :
              /\ Queue(client_id)[i].type = "shutdown"
              /\ Queue(client_id)[i].status = "completed"

-----------------------------------------------------------------------------
(* Isolation of agents and purity of reads *)

\* what the four per-agent stores hold for an agent; a missing key is <<>>
\* and a present one is a one-element tuple, so that an empty queue or list
\* differs from none
StoredFor(store, client_id) ==
    IF client_id \in DOMAIN store THEN <<store[client_id]>> ELSE <<>>

AgentStores(client_id) ==
    [queue    |-> StoredFor(pending_commands, client_id),
     files    |-> StoredFor(client_files, client_id),
     registry |-> StoredFor(clients_registry, client_id),
     config   |-> StoredFor(client_configs, client_id)]

\* the step is a Create, Report, Upsert, Set config or Upload for the agent
IssuedFor(client_id) ==
    \/ resp'.op = "create_scan_command" /\ create_scan_command(client_id)
    \/ /\ resp'.op = "create_upload_command"
       /\ \E filepath \in Filepaths : create_upload_command(client_id, filepath)
    \/ resp'.op = "create_reboot_command" /\ create_reboot_command(client_id)
    \/ resp'.op = "create_shutdown_command" /\ create_shutdown_command(client_id)
    \/ /\ resp'.op = "report_files"
       /\ \E files_json \in ServerFilesJson : report_files(client_id, files_json)
    \/ /\ resp'.op = "receive_client_status"
       /\ \E ip \in Ips : receive_client_status(client_id, ip)
    \/ /\ resp'.op = "set_client_config"
       /\ set_client_config(client_id, ServerConfig)
    \/ /\ resp'.op = "upload_file"
       /\ \E command_id \in 0 .. next_uuid :
              \/ upload_file(command_id, client_id, ServerFilename, ServerContent, now)
              \/ upload_file_write_error(command_id, client_id,
                                         ServerFilename, ServerContent)

\* C32: a Create, Report, Upsert, Set config or Upload for one agent leaves
\* the queue, file list, registry record and config of every other agent as
\* they were, absent ones absent (a step that changes them for an agent is
\* no such operation for another agent); and ListPending, Get files, Get config,
\* List agents and Fetch change no store, so they create no queue, list or
\* record for any agent id.
C32_AgentsIsolatedReadsPure ==
    [][/\ \A other \in Agents :
             AgentStores(other)' # AgentStores(other)
             => \A client_id \in Agents \ {other} : ~IssuedFor(client_id)
       /\ resp'.op \in {"get_commands", "get_client_files", "get_client_config",
                         "get_all_clients", "download_file"}
             => UNCHANGED <<pending_commands, client_files, uploaded_files_metadata,
                            clients_registry, client_configs, disk, now,
                            next_uuid, in_flight>>]_vars

\* C32 happens: the config of an agent that is in no store was read and
\* answered with the default, while the other agent has a queue, a file
\* list and a config of its own.
C32_Witness ==
    /\ resp.op = "get_client_config"
    /\ resp.body = default_config
    /\ \E client_id \in Agents, other \in Agents :
          /\ AgentStores(other)
                 = [queue |-> <<>>, files |-> <<>>, registry |-> <<>>, config |-> <<>>]
          /\ AgentStores(client_id).queue # <<>>
          /\ AgentStores(client_id).files # <<>>
          /\ AgentStores(client_id).config # <<>>

====
